---------------------------- MODULE Spec2Model ----------------------------
(***************************************************************************)
(* The tracked-send pipeline of reqwest_wrap_log (src/src/lib.rs):         *)
(* TrackedClient with its capture store (`collector`, a tokio Mutex around *)
(* a HashMap keyed by correlation key) and its cookie jar (`cookie_store`, *)
(* a std Mutex).  Every task runs one TrackedClient method at a time; an   *)
(* action is one stretch of a method between two points where another task *)
(* can interleave (a lock acquisition, an await on the transport).         *)
(***************************************************************************)
EXTENDS Integers, Sequences, FiniteSets, TLC

(* ---------------------------- bounds ---------------------------------- *)
MaxDur == 1        \* longest time (in ticks) a call's timer is followed
MaxJar == 1        \* number of times the transport may change the jar

Tasks  == {1, 2}      \* concurrent tasks sharing one TrackedClient
LiveTasks == {1, 2, 3}   \* the tasks of the runs that follow the worker threads
Calls  == {1, 2}      \* the tracked sends of a run, numbered as they start
Keys   == {"a", "b"}
Sends  == {"send", "text"}
Bodies == {"ok"}
SetCookies == {<<>>, <<"a=1", "b=2">>}   \* the Set-Cookie values of a response, as received
Url == "http://final/"                   \* the URL a response was finally served from
ErrMsgs == {"connection error"}

(* Option<T>: None is the empty sequence, Some(x) a one-element sequence. *)
None    == <<>>
Some(x) == <<x>>

VARIABLES
  collector,     \* HashMap<String, RequestResponseData>: key -> entry
  collLock,      \* holder of the collector's tokio Mutex, 0 when free
  waiters,       \* tasks queued for the collector's Mutex, in order of arrival
  jarLock,       \* holder of the cookie_store's std Mutex, 0 when free
  jar,           \* content of the cookie jar (its version)
  pc,            \* where each task stands in the method it runs
  op,            \* the method a task runs: "send", "text", "take", "clear"
  key,           \* the correlation key of the task's tracked send
  call,          \* number of the task's tracked send (stands for its RequestData)
  cookies_sent,  \* local: cookies the jar gave for the request URL
  errmsg,        \* local: e.to_string() of a failed execute
  resp,          \* local: what the call captured from the response
  response,      \* local: the reqwest::Response that execute returned
  elapsed,       \* the call's monotonic timer: time since `start`
  duration_ms,   \* local: the duration the call stamped
  result,        \* what the method returned to its caller
  ret,           \* the value the method returned (a response, a LoggedText, a batch)
  nextCall,      \* next call number
  execCount,     \* history: times this call invoked the transport's execute
  execDur,       \* history: how long this call's execute took
  quiet,         \* history: no other call used the key, no clear or drain, so far
  raced,         \* history: key -> a call was in flight on it when the entry was inserted
  replaced       \* history: key -> the insert replaced an entry with a response or an error

vars == <<collector, collLock, waiters, jarLock, jar, pc, op, key, call, cookies_sent,
          errmsg, resp, response, elapsed, duration_ms, result, ret, nextCall,
          execCount, execDur, quiet, raced, replaced>>

locks   == <<collLock, waiters, jarLock>>
locals  == <<cookies_sent, errmsg, resp, response, elapsed, duration_ms>>
history == <<execCount, execDur, quiet, raced, replaced>>

Empty == [k \in {} |-> None]

NoResp == [status |-> 0, set_cookies |-> <<>>, final_url |-> "", body |-> ""]

(* No response held: what `response` is before execute returns and after   *)
(* the response was moved out or dropped.                                  *)
NoResponse == [status |-> 0, set_cookies |-> <<>>, url |-> "", body_reads |-> 0]

(* Pipeline positions after the insert and before the call returns. *)
PostInsert == {"exec", "body", "err_wait", "err_cs", "rec_wait", "rec_cs",
               "dump_wait", "dump_cs"}

(* The state after construction: T are the tasks that use the client, m    *)
(* is what the capture store holds.                                        *)
Start(T, m) ==
  /\ collector = m
  /\ collLock = 0
  /\ waiters = <<>>
  /\ jarLock = 0
  /\ jar = 0
  /\ pc = [t \in T |-> "idle"]
  /\ op = [t \in T |-> "none"]
  /\ key = [t \in T |-> "a"]
  /\ call = [t \in T |-> 0]
  /\ cookies_sent = [t \in T |-> 0]
  /\ errmsg = [t \in T |-> ""]
  /\ resp = [t \in T |-> NoResp]
  /\ response = [t \in T |-> NoResponse]
  /\ elapsed = [t \in T |-> 0]
  /\ duration_ms = [t \in T |-> 0]
  /\ result = [t \in T |-> "none"]
  /\ ret = [t \in T |-> Empty]
  /\ nextCall = 1
  /\ execCount = [t \in T |-> 0]
  /\ execDur = [t \in T |-> 0]
  /\ quiet = [t \in T |-> FALSE]
  /\ raced = [k \in Keys |-> FALSE]
  /\ replaced = [k \in Keys |-> FALSE]

(* TrackedClient::new: an empty store, an empty jar, two tasks. *)
Init == Start(Tasks, Empty)

(* HashMap::insert: creates or replaces the entry under k. *)
Insert(m, k, e) == [x \in DOMAIN m \cup {k} |-> IF x = k THEN e ELSE m[x]]

(* The tasks using the TrackedClient. *)
Spawned == DOMAIN pc

(* A task that runs no method: free to start one. *)
Free(t) == pc[t] = "idle"

(* ------------------------- the worker threads --------------------------- *)
Workers == 2       \* worker threads of the runtime the tasks are spawned on

(* Positions at which a task runs synchronous code, or blocks its thread    *)
(* on the jar's std Mutex.                                                  *)
Running == {"jar_wait", "jar_cs", "ins_cs", "err_cs", "rec_cs", "dump_wait",
            "dump_cs", "take_cs", "take_clear", "clear_cs", "get_cs",
            "pretty_cs", "pretty_fmt"}

(* Positions at which a task is at self.collector.lock(). *)
LockWaits == {"ins_wait", "err_wait", "rec_wait", "take_wait", "clear_wait",
              "get_wait", "pretty_wait"}

(* tracked_send_text waits for the store lock inside                        *)
(* futures::executor::block_on: its thread is blocked until it has the lock. *)
BlocksOn(t) == pc[t] = "err_wait" /\ op[t] = "text"

(* The task occupies a worker thread: it runs, it blocks the thread, or it  *)
(* has reached lock().await and was not suspended yet.  A task suspended on *)
(* execute, on the body read or in the Mutex's queue occupies none.         *)
OnThread(t) ==
  \/ pc[t] \in Running
  \/ pc[t] \in LockWaits /\ \A i \in DOMAIN waiters : waiters[i] # t
  \/ BlocksOn(t)

(* The task can take a step: it has a thread, or a worker is idle to poll it. *)
CanRun(t) ==
  IF OnThread(t) THEN TRUE
  ELSE Cardinality({u \in Spawned : OnThread(u)}) < Workers

(* The method returns r to its caller: its locals go out of scope. *)
Returns(t, r) ==
  /\ pc' = [pc EXCEPT ![t] = "done"]
  /\ result' = [result EXCEPT ![t] = r]
  /\ call' = [call EXCEPT ![t] = 0]
  /\ cookies_sent' = [cookies_sent EXCEPT ![t] = 0]
  /\ errmsg' = [errmsg EXCEPT ![t] = ""]
  /\ resp' = [resp EXCEPT ![t] = NoResp]
  /\ response' = [response EXCEPT ![t] = NoResponse]
  /\ elapsed' = [elapsed EXCEPT ![t] = 0]
  /\ duration_ms' = [duration_ms EXCEPT ![t] = 0]
  /\ execDur' = [execDur EXCEPT ![t] = 0]

(* A task starts method m. *)
Starts(t, m, k, to) ==
  /\ Free(t)
  /\ CanRun(t)
  /\ op' = [op EXCEPT ![t] = m]
  /\ key' = [key EXCEPT ![t] = k]
  /\ pc' = [pc EXCEPT ![t] = to]
  /\ UNCHANGED <<result, ret, execCount>>

(* A fresh RequestResponseData as both send variants insert it. *)
FreshEntry(t) ==
  [request_data  |-> [request |-> call[t], cookies |-> cookies_sent[t]],
   response_data |-> None,
   error         |-> None,
   cookies       |-> None]

(* ------------------ tracked_send / tracked_send_text ------------------ *)

(* The caller starts a tracked send of variant v under key k and           *)
(* builder.build() succeeds; the next step is the cookie lookup.           *)
CallTrackedSend(t, k, v) ==
  /\ nextCall \in Calls
  /\ Starts(t, v, k, "jar_wait")
  /\ call' = [call EXCEPT ![t] = nextCall]
  /\ nextCall' = nextCall + 1
  /\ quiet' = [u \in Spawned |->
                 IF u = t
                   THEN ~ \E w \in Spawned \ {t} :
                            op[w] \in Sends /\ key[w] = k /\ ~Free(w)
                   ELSE IF op[u] \in Sends /\ key[u] = k THEN FALSE ELSE quiet[u]]
  /\ UNCHANGED <<collector, locks, jar, locals, execDur, raced, replaced>>

(* builder.build() fails: the `?` returns before anything else happens. *)
BuildFails(t, k, v) ==
  /\ Free(t)
  /\ CanRun(t)
  /\ op' = [op EXCEPT ![t] = v]
  /\ key' = [key EXCEPT ![t] = k]
  /\ Returns(t, "BuildError")
  /\ UNCHANGED <<collector, locks, jar, ret, nextCall, execCount, quiet, raced, replaced>>

(* self.cookie_store.lock() for the request cookies. *)
LockJarForRequest(t) ==
  /\ pc[t] = "jar_wait"
  /\ jarLock = 0
  /\ jarLock' = t
  /\ pc' = [pc EXCEPT ![t] = "jar_cs"]
  /\ UNCHANGED <<collector, collLock, waiters, jar, op, key, call, locals, result, ret,
                 nextCall, history>>

(* cookie_store.lock() returns Err (poisoned): map_err(..)? returns. *)
JarLockFails(t) ==
  /\ pc[t] = "jar_wait"
  /\ Returns(t, "LockError")
  /\ UNCHANGED <<collector, locks, jar, op, key, ret, nextCall, execCount, quiet, raced, replaced>>

(* store.get_request_cookies(&url) collected; the guard drops at the end   *)
(* of the block.                                                           *)
GetRequestCookies(t) ==
  /\ pc[t] = "jar_cs"
  /\ cookies_sent' = [cookies_sent EXCEPT ![t] = jar]
  /\ jarLock' = 0
  /\ pc' = [pc EXCEPT ![t] = "ins_wait"]
  /\ UNCHANGED <<collector, collLock, waiters, jar, op, key, call, errmsg, resp, response, elapsed,
                 duration_ms, result, ret, nextCall, history>>

(* self.collector.lock().await finds the Mutex locked, or tasks queued for  *)
(* it: the task joins the queue.  An awaiting task is suspended and leaves  *)
(* its thread; inside block_on the thread stays blocked.                    *)
Park(t) ==
  /\ pc[t] \in LockWaits
  /\ \A i \in DOMAIN waiters : waiters[i] # t
  /\ (collLock # 0 \/ waiters # <<>>)
  /\ waiters' = Append(waiters, t)
  /\ UNCHANGED <<collector, collLock, jarLock, jar, pc, op, key, call, locals,
                 result, ret, nextCall, history>>

(* self.collector.lock().await: the task gets the store lock when it is     *)
(* free and no task queued before it; the Mutex serves its queue in order.  *)
AcquireCollector(t, from, to) ==
  /\ pc[t] = from
  /\ collLock = 0
  /\ IF waiters = <<>> THEN TRUE ELSE Head(waiters) = t
  /\ CanRun(t)
  /\ collLock' = t
  /\ waiters' = IF waiters = <<>> THEN waiters ELSE Tail(waiters)
  /\ pc' = [pc EXCEPT ![t] = to]
  /\ UNCHANGED <<collector, jarLock, jar, op, key, call, locals, result, ret,
                 nextCall, history>>

LockForInsert(t) == AcquireCollector(t, "ins_wait", "ins_cs")

(* Mutant of InsertEntry: the request is written into an entry that is     *)
(* already there (entry().or_insert), so an old response or error stays.   *)
InsertEntryKeepsOld(t) ==
  /\ pc[t] = "ins_cs"
  /\ collector' = IF key[t] \in DOMAIN collector
                    THEN [collector EXCEPT ![key[t]].request_data = FreshEntry(t).request_data]
                    ELSE Insert(collector, key[t], FreshEntry(t))
  /\ collLock' = 0
  /\ UNCHANGED waiters
  /\ elapsed' = [elapsed EXCEPT ![t] = 0]
  /\ execCount' = [execCount EXCEPT ![t] = @ + 1]
  /\ raced' = [raced EXCEPT ![key[t]] =
                 \E u \in Spawned \ {t} :
                    op[u] \in Sends /\ key[u] = key[t] /\ pc[u] \in PostInsert]
  /\ replaced' = [replaced EXCEPT ![key[t]] =
                    /\ key[t] \in DOMAIN collector
                    /\ (collector[key[t]].response_data # None
                          \/ collector[key[t]].error # None)]
  /\ pc' = [pc EXCEPT ![t] = "exec"]
  /\ UNCHANGED <<jarLock, jar, op, key, call, cookies_sent, errmsg, resp, response,
                 duration_ms, result, ret, nextCall, execDur, quiet>>

(* Mutant of InsertEntry: the store guard is kept across the await on      *)
(* execute.                                                                *)
InsertEntryHoldsGuard(t) ==
  /\ pc[t] = "ins_cs"
  /\ collector' = Insert(collector, key[t], FreshEntry(t))
  /\ elapsed' = [elapsed EXCEPT ![t] = 0]
  /\ execCount' = [execCount EXCEPT ![t] = @ + 1]
  /\ raced' = [raced EXCEPT ![key[t]] =
                 \E u \in Spawned \ {t} :
                    op[u] \in Sends /\ key[u] = key[t] /\ pc[u] \in PostInsert]
  /\ replaced' = [replaced EXCEPT ![key[t]] =
                    /\ key[t] \in DOMAIN collector
                    /\ (collector[key[t]].response_data # None
                          \/ collector[key[t]].error # None)]
  /\ pc' = [pc EXCEPT ![t] = "exec"]
  /\ UNCHANGED <<locks, jar, op, key, call, cookies_sent, errmsg, resp, response,
                 duration_ms, result, ret, nextCall, execDur, quiet>>

(* coll.insert(key, fresh entry); the guard drops; Instant::now() starts   *)
(* the timer and self.inner.execute(req) is invoked: the task suspends.    *)
InsertEntry(t) ==
  /\ pc[t] = "ins_cs"
  /\ collector' = Insert(collector, key[t], FreshEntry(t))
  /\ collLock' = 0
  /\ UNCHANGED waiters
  /\ elapsed' = [elapsed EXCEPT ![t] = 0]
  /\ execCount' = [execCount EXCEPT ![t] = @ + 1]
  /\ raced' = [raced EXCEPT ![key[t]] =
                 \E u \in Spawned \ {t} :
                    op[u] \in Sends /\ key[u] = key[t] /\ pc[u] \in PostInsert]
  /\ replaced' = [replaced EXCEPT ![key[t]] =
                    /\ key[t] \in DOMAIN collector
                    /\ (collector[key[t]].response_data # None
                          \/ collector[key[t]].error # None)]
  /\ pc' = [pc EXCEPT ![t] = "exec"]
  /\ UNCHANGED <<jarLock, jar, op, key, call, cookies_sent, errmsg, resp, response,
                 duration_ms, result, ret, nextCall, execDur, quiet>>

(* The response execute returns: its body stream is not read yet. *)
Received(sc) == [status |-> 200, set_cookies |-> sc, url |-> Url, body_reads |-> 0]

(* What the transport does to the shared jar when a response carries       *)
(* Set-Cookie: it stores the cookies under the jar's own lock.             *)
TransportJar(sc) ==
  IF sc # <<>> THEN jarLock = 0 /\ jar < MaxJar /\ jar' = jar + 1
               ELSE jar' = jar

(* Mutant of ExecOkSend: tracked_send reads the body as well and keeps its  *)
(* text for the snapshot.                                                  *)
ExecOkSendReadsBody(t, d, sc) ==
  /\ pc[t] = "exec" /\ op[t] = "send"
  /\ CanRun(t)
  /\ TransportJar(sc)
  /\ elapsed' = [elapsed EXCEPT ![t] = @ + d]
  /\ execDur' = [execDur EXCEPT ![t] = d]
  /\ duration_ms' = [duration_ms EXCEPT ![t] = elapsed'[t]]
  /\ response' = [response EXCEPT ![t] = [Received(sc) EXCEPT !.body_reads = 1]]
  /\ resp' = [resp EXCEPT ![t] = [status      |-> response'[t].status,
                                  set_cookies |-> response'[t].set_cookies,
                                  final_url   |-> "",
                                  body        |-> "ok"]]
  /\ pc' = [pc EXCEPT ![t] = "rec_wait"]
  /\ UNCHANGED <<collector, locks, op, key, call, cookies_sent, errmsg, result,
                 ret, nextCall, execCount, quiet, raced, replaced>>

(* tracked_send: execute returns Ok after d ticks; duration_ms and         *)
(* response_time are stamped, status, headers and set-cookie captured.     *)
ExecOkSend(t, d, sc) ==
  /\ pc[t] = "exec" /\ op[t] = "send"
  /\ CanRun(t)
  /\ TransportJar(sc)
  /\ elapsed' = [elapsed EXCEPT ![t] = @ + d]
  /\ execDur' = [execDur EXCEPT ![t] = d]
  /\ duration_ms' = [duration_ms EXCEPT ![t] = elapsed'[t]]
  /\ response' = [response EXCEPT ![t] = Received(sc)]
  /\ resp' = [resp EXCEPT ![t] = [status      |-> response'[t].status,
                                  set_cookies |-> response'[t].set_cookies,
                                  final_url   |-> "",
                                  body        |-> ""]]
  /\ pc' = [pc EXCEPT ![t] = "rec_wait"]
  /\ UNCHANGED <<collector, locks, op, key, call, cookies_sent, errmsg, result,
                 ret, nextCall, execCount, quiet, raced, replaced>>

(* Mutant of ExecOkText: nothing is copied from the response before the    *)
(* body read starts; the headers are left to be read afterwards.           *)
ExecOkTextDefersHeaders(t, d, sc) ==
  /\ pc[t] = "exec" /\ op[t] = "text"
  /\ CanRun(t)
  /\ TransportJar(sc)
  /\ elapsed' = [elapsed EXCEPT ![t] = @ + d]
  /\ execDur' = [execDur EXCEPT ![t] = d]
  /\ response' = [response EXCEPT ![t] = Received(sc)]
  /\ pc' = [pc EXCEPT ![t] = "body"]
  /\ UNCHANGED <<collector, locks, op, key, call, cookies_sent, errmsg, resp,
                 duration_ms, result, ret, nextCall, execCount, quiet, raced, replaced>>

(* tracked_send_text: execute returns Ok within its 20 s; final_url,       *)
(* status and headers are captured and resp.bytes() is awaited.            *)
ExecOkText(t, d, sc) ==
  /\ pc[t] = "exec" /\ op[t] = "text"
  /\ CanRun(t)
  /\ TransportJar(sc)
  /\ elapsed' = [elapsed EXCEPT ![t] = @ + d]
  /\ execDur' = [execDur EXCEPT ![t] = d]
  /\ response' = [response EXCEPT ![t] = Received(sc)]
  /\ resp' = [resp EXCEPT ![t] = [status      |-> response'[t].status,
                                  set_cookies |-> response'[t].set_cookies,
                                  final_url   |-> response'[t].url,
                                  body        |-> ""]]
  /\ pc' = [pc EXCEPT ![t] = "body"]
  /\ UNCHANGED <<collector, locks, op, key, call, cookies_sent, errmsg,
                 duration_ms, result, ret, nextCall, execCount, quiet, raced, replaced>>

(* Mutant of ExecFails: the failed request is executed again. *)
ExecFailsRetries(t, msg) ==
  /\ pc[t] = "exec"
  /\ CanRun(t)
  /\ execCount[t] < 2
  /\ execCount' = [execCount EXCEPT ![t] = @ + 1]
  /\ UNCHANGED <<collector, locks, jar, pc, op, key, call, locals, result, ret,
                 nextCall, execDur, quiet, raced, replaced>>

(* execute returns Err(e): the call goes for the store lock to record      *)
(* e.to_string() (tracked_send awaits it, tracked_send_text blocks on it). *)
ExecFails(t, msg) ==
  /\ pc[t] = "exec"
  /\ CanRun(t)
  /\ errmsg' = [errmsg EXCEPT ![t] = msg]
  /\ pc' = [pc EXCEPT ![t] = "err_wait"]
  /\ UNCHANGED <<collector, locks, jar, op, key, call, cookies_sent, resp, response, elapsed,
                 duration_ms, result, ret, nextCall, history>>

(* Mutant of ExecTimeout: the timeout is recorded as the entry's error. *)
ExecTimeoutRecords(t) ==
  /\ pc[t] = "exec" /\ op[t] = "text"
  /\ CanRun(t)
  /\ collLock = 0
  /\ collector' = IF key[t] \in DOMAIN collector
                    THEN [collector EXCEPT ![key[t]].error = Some("timeout on execute")]
                    ELSE collector
  /\ Returns(t, "Timeout")
  /\ UNCHANGED <<locks, jar, op, key, ret, nextCall, execCount, quiet, raced, replaced>>

(* tracked_send_text: timeout(20 s) on execute elapses. *)
ExecTimeout(t) ==
  /\ pc[t] = "exec" /\ op[t] = "text"
  /\ CanRun(t)
  /\ Returns(t, "Timeout")
  /\ UNCHANGED <<collector, locks, jar, op, key, ret, nextCall, execCount, quiet, raced, replaced>>

LockForError(t) == AcquireCollector(t, "err_wait", "err_cs")

(* Mutant of RecordError: the failure is returned but not recorded. *)
RecordErrorSkips(t) ==
  /\ pc[t] = "err_cs"
  /\ collLock' = 0
  /\ UNCHANGED waiters
  /\ Returns(t, "RequestFailed")
  /\ UNCHANGED <<collector, jarLock, jar, op, key, ret, nextCall, execCount, quiet, raced, replaced>>

(* if let Some(ent) = coll.get_mut(key) { ent.error = Some(e.to_string()) } *)
(* and the call returns Err("Request execution failed").                    *)
RecordError(t) ==
  /\ pc[t] = "err_cs"
  /\ collector' = IF key[t] \in DOMAIN collector
                    THEN [collector EXCEPT ![key[t]].error = Some(errmsg[t])]
                    ELSE collector
  /\ collLock' = 0
  /\ UNCHANGED waiters
  /\ Returns(t, "RequestFailed")
  /\ UNCHANGED <<jarLock, jar, op, key, ret, nextCall, execCount, quiet, raced, replaced>>

(* tracked_send_text: resp.bytes() returns within its 25 s after d ticks    *)
(* (the timer is followed up to MaxDur); body_str is decoded, then          *)
(* duration_ms and response_time are stamped.                               *)
BodyOk(t, d, b) ==
  /\ pc[t] = "body"
  /\ CanRun(t)
  /\ elapsed[t] + d <= MaxDur
  /\ elapsed' = [elapsed EXCEPT ![t] = @ + d]
  /\ response' = [response EXCEPT ![t].body_reads = @ + 1]
  /\ resp' = [resp EXCEPT ![t].body = b]
  /\ duration_ms' = [duration_ms EXCEPT ![t] = elapsed'[t]]
  /\ pc' = [pc EXCEPT ![t] = "rec_wait"]
  /\ UNCHANGED <<collector, locks, jar, op, key, call, cookies_sent, errmsg,
                 result, ret, nextCall, history>>

(* tracked_send_text: timeout(25 s) on the body read elapses. *)
BodyTimeout(t) ==
  /\ pc[t] = "body"
  /\ CanRun(t)
  /\ Returns(t, "Timeout")
  /\ UNCHANGED <<collector, locks, jar, op, key, ret, nextCall, execCount, quiet, raced, replaced>>

(* tracked_send_text: resp.bytes() returns Err: context("read body failed")?. *)
BodyFails(t) ==
  /\ pc[t] = "body"
  /\ CanRun(t)
  /\ Returns(t, "ReadBodyFailed")
  /\ UNCHANGED <<collector, locks, jar, op, key, ret, nextCall, execCount, quiet, raced, replaced>>

LockForResponse(t) == AcquireCollector(t, "rec_wait", "rec_cs")

(* The ResponseData the variant stores. *)
ResponseData(t) ==
  [status        |-> resp[t].status,
   set_cookies   |-> resp[t].set_cookies,
   body          |-> resp[t].body,
   response_time |-> duration_ms[t],
   duration_ms   |-> duration_ms[t]]

(* What a tracked send returns with Ok: tracked_send the response itself,  *)
(* tracked_send_text a LoggedText built from what it captured.             *)
OkValue(t) ==
  IF op[t] = "send"
    THEN [response |-> response[t]]
    ELSE [status      |-> resp[t].status,
          set_cookies |-> resp[t].set_cookies,
          body        |-> resp[t].body,
          final_url   |-> resp[t].final_url]

(* Mutant of RecordResponse: the entry is found but the response is not     *)
(* stored in it.                                                            *)
RecordResponseSkips(t) ==
  /\ pc[t] = "rec_cs"
  /\ key[t] \in DOMAIN collector
  /\ pc' = [pc EXCEPT ![t] = "dump_wait"]
  /\ UNCHANGED <<collector, locks, jar, op, key, call, locals, result, ret,
                 nextCall, history>>

(* Mutant of RecordResponse: a response already in the entry is kept (the   *)
(* first write wins).                                                       *)
RecordResponseFirstWins(t) ==
  /\ pc[t] = "rec_cs"
  /\ key[t] \in DOMAIN collector
  /\ collector' = IF collector[key[t]].response_data = None
                    THEN [collector EXCEPT ![key[t]].response_data = Some(ResponseData(t))]
                    ELSE collector
  /\ pc' = [pc EXCEPT ![t] = "dump_wait"]
  /\ UNCHANGED <<locks, jar, op, key, call, locals, result, ret, nextCall, history>>

(* if let Some(ent) = coll.get_mut(key): ent.response_data = Some(..) and   *)
(* dump_cookies() is called with the store lock held.                       *)
RecordResponse(t) ==
  /\ pc[t] = "rec_cs"
  /\ key[t] \in DOMAIN collector
  /\ collector' = [collector EXCEPT ![key[t]].response_data = Some(ResponseData(t))]
  /\ pc' = [pc EXCEPT ![t] = "dump_wait"]
  /\ UNCHANGED <<locks, jar, op, key, call, locals, result, ret, nextCall, history>>

(* Mutant of RecordNothing: a removed entry is created again             *)
(* (entry().or_insert_with) to hold the response.                          *)
RecordUpserts(t) ==
  /\ pc[t] = "rec_cs"
  /\ key[t] \notin DOMAIN collector
  /\ collector' = Insert(collector, key[t],
                         [FreshEntry(t) EXCEPT !.response_data = Some(ResponseData(t))])
  /\ collLock' = 0
  /\ UNCHANGED waiters
  /\ ret' = [ret EXCEPT ![t] = OkValue(t)]
  /\ Returns(t, "Ok")
  /\ UNCHANGED <<jarLock, jar, op, key, nextCall, execCount, quiet, raced, replaced>>

(* coll.get_mut(key) is None: the block ends, the guard drops, Ok(..). *)
RecordNothing(t) ==
  /\ pc[t] = "rec_cs"
  /\ key[t] \notin DOMAIN collector
  /\ collLock' = 0
  /\ UNCHANGED waiters
  /\ ret' = [ret EXCEPT ![t] = OkValue(t)]
  /\ Returns(t, "Ok")
  /\ UNCHANGED <<collector, jarLock, jar, op, key, nextCall, execCount, quiet, raced, replaced>>

(* dump_cookies: self.cookie_store.lock(). *)
LockJarForDump(t) ==
  /\ pc[t] = "dump_wait"
  /\ jarLock = 0
  /\ jarLock' = t
  /\ pc' = [pc EXCEPT ![t] = "dump_cs"]
  /\ UNCHANGED <<collector, collLock, waiters, jar, op, key, call, locals, result, ret,
                 nextCall, history>>

(* dump_cookies: the lock is poisoned; `?` leaves the send with Err, the    *)
(* store guard drops.                                                       *)
DumpLockFails(t) ==
  /\ pc[t] = "dump_wait"
  /\ collLock' = 0
  /\ UNCHANGED waiters
  /\ Returns(t, "LockError")
  /\ UNCHANGED <<collector, jarLock, jar, op, key, ret, nextCall, execCount, quiet, raced, replaced>>

(* dump_cookies returns the jar as one JSON array: ent.cookies = Some(..),  *)
(* both guards drop and the send returns Ok.                                *)
DumpCookies(t) ==
  /\ pc[t] = "dump_cs"
  /\ collector' = [collector EXCEPT ![key[t]].cookies = Some(jar)]
  /\ jarLock' = 0
  /\ collLock' = 0
  /\ UNCHANGED waiters
  /\ ret' = [ret EXCEPT ![t] = OkValue(t)]
  /\ Returns(t, "Ok")
  /\ UNCHANGED <<jar, op, key, nextCall, execCount, quiet, raced, replaced>>

(* dump_cookies fails to save or re-serialize the jar: `?` leaves the send  *)
(* with Err after response_data was set; both guards drop.                  *)
DumpFails(t) ==
  /\ pc[t] = "dump_cs"
  /\ jarLock' = 0
  /\ collLock' = 0
  /\ UNCHANGED waiters
  /\ Returns(t, "SerializationError")
  /\ UNCHANGED <<collector, jar, op, key, ret, nextCall, execCount, quiet, raced, replaced>>

(* ------------------ take_collected_data / clear_collector -------------- *)

CallTake(t) ==
  /\ Starts(t, "take", "a", "take_wait")
  /\ UNCHANGED <<collector, locks, jar, call, locals, nextCall, execDur, quiet, raced, replaced>>

LockForTake(t) == AcquireCollector(t, "take_wait", "take_cs")

(* Mutant of TakeSerialize: the guard is dropped after the serialization,   *)
(* before the clear.                                                        *)
TakeSerializeUnlocks(t) ==
  /\ pc[t] = "take_cs"
  /\ ret' = [ret EXCEPT ![t] = collector]
  /\ collLock' = 0
  /\ UNCHANGED waiters
  /\ pc' = [pc EXCEPT ![t] = "take_clear"]
  /\ UNCHANGED <<collector, jarLock, jar, op, key, call, locals, result, nextCall, history>>

(* let s = serde_json::to_string(&*coll)?, with the guard held. *)
TakeSerialize(t) ==
  /\ pc[t] = "take_cs"
  /\ ret' = [ret EXCEPT ![t] = collector]
  /\ pc' = [pc EXCEPT ![t] = "take_clear"]
  /\ UNCHANGED <<collector, locks, jar, op, key, call, locals, result, nextCall, history>>

(* Every entry is gone: what the history variables note of it. *)
NoteCleared ==
  /\ quiet' = [u \in Spawned |-> FALSE]
  /\ raced' = [k \in Keys |-> FALSE]
  /\ replaced' = [k \in Keys |-> FALSE]

(* coll.clear(); Ok(s): the guard drops on return. *)
TakeClear(t) ==
  /\ pc[t] = "take_clear"
  /\ collector' = Empty
  /\ collLock' = 0
  /\ UNCHANGED waiters
  /\ Returns(t, "Ok")
  /\ NoteCleared
  /\ UNCHANGED <<jarLock, jar, op, key, ret, nextCall, execCount>>

(* The caller has its result; the task is free for its next call. *)
Return(t) ==
  /\ pc[t] = "done"
  /\ pc' = [pc EXCEPT ![t] = "idle"]
  /\ op' = [op EXCEPT ![t] = "none"]
  /\ key' = [key EXCEPT ![t] = "a"]
  /\ result' = [result EXCEPT ![t] = "none"]
  /\ ret' = [ret EXCEPT ![t] = Empty]
  /\ execCount' = [execCount EXCEPT ![t] = 0]
  /\ quiet' = [quiet EXCEPT ![t] = FALSE]
  /\ UNCHANGED <<collector, locks, jar, call, locals, nextCall, execDur, raced, replaced>>

CallClear(t) ==
  /\ Starts(t, "clear", "a", "clear_wait")
  /\ UNCHANGED <<collector, locks, jar, call, locals, nextCall, execDur, quiet, raced, replaced>>

LockForClear(t) == AcquireCollector(t, "clear_wait", "clear_cs")

(* coll.clear(); the guard drops on return. *)
ClearCollector(t) ==
  /\ pc[t] = "clear_cs"
  /\ collector' = Empty
  /\ collLock' = 0
  /\ UNCHANGED waiters
  /\ Returns(t, "Ok")
  /\ NoteCleared
  /\ UNCHANGED <<jarLock, jar, op, key, ret, nextCall, execCount>>

Next ==
  \E t \in Tasks :
    \/ \E k \in Keys, v \in Sends : CallTrackedSend(t, k, v)
    \/ \E k \in Keys, v \in Sends : BuildFails(t, k, v)
    \/ LockJarForRequest(t)
    \/ JarLockFails(t)
    \/ GetRequestCookies(t)
    \/ LockForInsert(t)
    \/ InsertEntry(t)
    \/ \E d \in 0..MaxDur, sc \in SetCookies : ExecOkSend(t, d, sc)
    \/ \E d \in 0..MaxDur, sc \in SetCookies : ExecOkText(t, d, sc)
    \/ \E m \in ErrMsgs : ExecFails(t, m)
    \/ ExecTimeout(t)
    \/ LockForError(t)
    \/ RecordError(t)
    \/ \E d \in 0..MaxDur, b \in Bodies : BodyOk(t, d, b)
    \/ BodyTimeout(t)
    \/ BodyFails(t)
    \/ LockForResponse(t)
    \/ RecordResponse(t)
    \/ RecordNothing(t)
    \/ LockJarForDump(t)
    \/ DumpLockFails(t)
    \/ DumpCookies(t)
    \/ DumpFails(t)
    \/ CallTake(t)
    \/ LockForTake(t)
    \/ TakeSerialize(t)
    \/ TakeClear(t)
    \/ CallClear(t)
    \/ LockForClear(t)
    \/ ClearCollector(t)
    \/ Return(t)

Spec == Init /\ [][Next]_vars

(* --------- get_collected_data / get_pretty_truncated_data -------------- *)

HeaderMax    == 50      \* truncate(s, 50) of a header value
CookiesMax   == 500     \* truncate(s, 500) of a "cookies" string
SetCookieMax == 50      \* truncate(s, 50) of a set_cookies item

Short == 40             \* lengths (in characters) of the strings of a store
Long  == 80
Mid   == 400
Huge  == 510

(* A string is the sequence of its characters; "E9" stands for a character *)
(* that takes two bytes in UTF-8, every other character takes one.         *)
Width(c) == IF c = "E9" THEN 2 ELSE 1

(* The length in bytes of the characters lo..hi of s (summed by halves). *)
RECURSIVE BytesIn(_, _, _)
BytesIn(s, lo, hi) ==
  IF lo > hi THEN 0
  ELSE IF lo = hi THEN Width(s[lo])
  ELSE LET mid == (lo + hi) \div 2
       IN  BytesIn(s, lo, mid) + BytesIn(s, mid + 1, hi)

(* s.len(): the length of the first n characters of s in bytes. *)
Bytes(s, n) == BytesIn(s, 1, n)

(* The largest n in lo..hi whose first n characters fit into m bytes. *)
RECURSIVE Fit(_, _, _, _)
Fit(s, m, lo, hi) ==
  IF lo = hi THEN lo
  ELSE LET mid == (lo + hi + 1) \div 2
       IN  IF Bytes(s, mid) <= m THEN Fit(s, m, mid, hi) ELSE Fit(s, m, lo, mid - 1)

(* &s[0..m]: the number of characters in the first m bytes of s; -1 when    *)
(* byte m is inside a character or past the end (the slice panics).         *)
CharsIn(s, m) ==
  LET n == Fit(s, m, 0, Len(s))
  IN  IF Bytes(s, n) = m THEN n ELSE -1

Marker == <<".", ".", ".">>
Panic  == <<"panic">>      \* stands for the panic of a slice off a char boundary

(* Mutant of truncate: the cut keeps max characters and adds the marker. *)
truncateKeepsMax(s, max) ==
  IF Bytes(s, Len(s)) > max
    THEN LET n == CharsIn(s, max)
         IN  IF n < 0 THEN Panic ELSE SubSeq(s, 1, n) \o Marker
    ELSE s

truncate(s, max) ==
  IF Bytes(s, Len(s)) > max
    THEN LET n == CharsIn(s, max - 3)
         IN  IF n < 0 THEN Panic ELSE SubSeq(s, 1, n) \o Marker
    ELSE s

(* serde_json::Value *)
Null   == [kind |-> "null",   val |-> 0]
Num(n) == [kind |-> "number", val |-> n]
Str(x) == [kind |-> "string", val |-> x]
Arr(a) == [kind |-> "array",  val |-> a]
Obj(m) == [kind |-> "object", val |-> m]

(* Option<String> in JSON: null or the string. *)
OptStr(o) == IF o = None THEN Null ELSE Str(o[1])

StrMap(m) == Obj([n \in DOMAIN m |-> Str(m[n])])

(* #[derive(Serialize)] of RequestData, ResponseData, RequestResponseData. *)
RequestJson(r) ==
  Obj([n \in {"method", "endpoint", "headers", "body", "cookies", "request_time"} |->
        CASE n = "method"       -> Str(r.method)
          [] n = "endpoint"     -> Str(r.endpoint)
          [] n = "headers"      -> StrMap(r.headers)
          [] n = "body"         -> OptStr(r.body)
          [] n = "cookies"      -> StrMap(r.cookies)
          [] n = "request_time" -> Str(r.request_time)])

ResponseJson(r) ==
  Obj([n \in {"status", "headers", "body", "set_cookies", "response_time", "duration_ms"} |->
        CASE n = "status"        -> Num(r.status)
          [] n = "headers"       -> StrMap(r.headers)
          [] n = "body"          -> Str(r.body)
          [] n = "set_cookies"   -> Arr([i \in DOMAIN r.set_cookies |-> Str(r.set_cookies[i])])
          [] n = "response_time" -> Str(r.response_time)
          [] n = "duration_ms"   -> Num(r.duration_ms)])

EntryJson(e) ==
  Obj([n \in {"request_data", "response_data", "error", "cookies"} |->
        CASE n = "request_data"  -> RequestJson(e.request_data)
          [] n = "response_data" -> IF e.response_data = None THEN Null
                                    ELSE ResponseJson(e.response_data[1])
          [] n = "error"         -> OptStr(e.error)
          [] n = "cookies"       -> OptStr(e.cookies)])

(* serde_json::to_string(&*coll), read back by serde_json::from_str. *)
ToJson(m) == Obj([k \in DOMAIN m |-> EntryJson(m[k])])

(* The string values of a JSON container cut to max, the rest left alone. *)
CutStrings(f, max) ==
  [n \in DOMAIN f |-> IF f[n].kind = "string" THEN Str(truncate(f[n].val, max)) ELSE f[n]]

(* fn truncate_fields(value: &mut Value) *)
RECURSIVE truncate_fields(_)
truncate_fields(value) ==
  CASE value.kind = "object" ->
         LET m0 == [n \in DOMAIN value.val |-> truncate_fields(value.val[n])]
             m1 == IF "headers" \in DOMAIN m0 /\ m0["headers"].kind = "object"
                     THEN [m0 EXCEPT !["headers"] = Obj(CutStrings(@.val, HeaderMax))]
                     ELSE m0
             m2 == IF "cookies" \in DOMAIN m1 /\ m1["cookies"].kind = "string"
                     THEN [m1 EXCEPT !["cookies"] = Str(truncate(@.val, CookiesMax))]
                     ELSE m1
             m3 == IF "set_cookies" \in DOMAIN m2 /\ m2["set_cookies"].kind = "array"
                     THEN [m2 EXCEPT !["set_cookies"] = Arr(CutStrings(@.val, SetCookieMax))]
                     ELSE m2
         IN  Obj(m3)
    [] value.kind = "array" ->
         Arr([i \in DOMAIN value.val |-> truncate_fields(value.val[i])])
    [] OTHER -> value

(* A truncate inside truncate_fields panicked. *)
RECURSIVE Panicked(_)
Panicked(value) ==
  CASE value.kind \in {"object", "array"} ->
         \E n \in DOMAIN value.val : Panicked(value.val[n])
    [] value.kind = "string" -> value.val = Panic
    [] OTHER -> FALSE

(* The strings a store is filled with: n characters of one byte each, or   *)
(* n characters of which every second one takes two bytes.                 *)
Text(n) == [i \in 1..n |-> <<"a", "b", "c", "d", "e">>[(i % 5) + 1]]
Wide(n) == [i \in 1..n |-> IF i % 2 = 0 THEN "E9" ELSE "a"]

RenderKeys  == {"a", "headers"}
CookieNames == {"sid", "cookies"}

(* The RequestData tracked_send builds, with one cookie sent under name cn. *)
RequestOf(cn) ==
  [method       |-> Text(3),
   endpoint     |-> Text(Long),
   headers      |-> [n \in {"accept", "user-agent"} |->
                      IF n = "accept" THEN Text(Long) ELSE Text(HeaderMax)],
   body         |-> Some(Text(Long)),
   cookies      |-> [n \in {cn} |-> Text(Huge)],
   request_time |-> Text(Short)]

ResponseOf ==
  [status        |-> 200,
   headers       |-> [n \in {"content-type", "x-final-url"} |->
                       IF n = "content-type" THEN Text(Short) ELSE Text(Long)],
   body          |-> Text(Long),
   set_cookies   |-> <<Text(Long), Text(Short), Text(SetCookieMax + 1)>>,
   response_time |-> Text(Short),
   duration_ms   |-> 1]

(* The stores the views are applied to: one entry under key k. *)
Stores ==
  { [x \in {k} |->
       [request_data  |-> RequestOf(cn),
        response_data |-> Some(ResponseOf),
        error         |-> er,
        cookies       |-> dp]] :
    k \in RenderKeys, cn \in CookieNames,
    er \in {None, Some(Text(Long))},
    dp \in {None, Some(Text(CookiesMax)), Some(Text(Huge)), Some(Wide(Mid))} }

InitRender == \E m \in Stores : Start(Tasks, m)

CallGet(t) ==
  /\ Starts(t, "get", "a", "get_wait")
  /\ UNCHANGED <<collector, locks, jar, call, locals, nextCall, execDur, quiet, raced, replaced>>

LockForGet(t) == AcquireCollector(t, "get_wait", "get_cs")

(* serde_json::to_string(&*coll): the guard drops on return. *)
GetCollectedData(t) ==
  /\ pc[t] = "get_cs"
  /\ ret' = [ret EXCEPT ![t] = ToJson(collector)]
  /\ collLock' = 0
  /\ UNCHANGED waiters
  /\ Returns(t, "Ok")
  /\ UNCHANGED <<collector, jarLock, jar, op, key, nextCall, execCount, quiet, raced, replaced>>

CallPretty(t) ==
  /\ Starts(t, "pretty", "a", "pretty_wait")
  /\ UNCHANGED <<collector, locks, jar, call, locals, nextCall, execDur, quiet, raced, replaced>>

LockForPretty(t) == AcquireCollector(t, "pretty_wait", "pretty_cs")

(* Mutant of PrettySerialize: the view drains the store as                 *)
(* take_collected_data does.                                               *)
PrettySerializeDrains(t) ==
  /\ pc[t] = "pretty_cs"
  /\ ret' = [ret EXCEPT ![t] = ToJson(collector)]
  /\ collector' = Empty
  /\ collLock' = 0
  /\ UNCHANGED waiters
  /\ pc' = [pc EXCEPT ![t] = "pretty_fmt"]
  /\ UNCHANGED <<jarLock, jar, op, key, call, locals, result, nextCall, history>>

(* let raw = self.get_collected_data().await?; data = from_str(&raw)?: the  *)
(* guard dropped inside get_collected_data.                                 *)
PrettySerialize(t) ==
  /\ pc[t] = "pretty_cs"
  /\ ret' = [ret EXCEPT ![t] = ToJson(collector)]
  /\ collLock' = 0
  /\ UNCHANGED waiters
  /\ pc' = [pc EXCEPT ![t] = "pretty_fmt"]
  /\ UNCHANGED <<collector, jarLock, jar, op, key, call, locals, result, nextCall, history>>

(* truncate_fields(&mut data); to_string_pretty(&data). A panic of truncate *)
(* unwinds out of the method.                                               *)
PrettyTruncate(t) ==
  /\ pc[t] = "pretty_fmt"
  /\ LET data == truncate_fields(ret[t])
     IN  IF Panicked(data)
           THEN ret' = [ret EXCEPT ![t] = Empty] /\ Returns(t, "Panic")
           ELSE ret' = [ret EXCEPT ![t] = data] /\ Returns(t, "Ok")
  /\ UNCHANGED <<collector, locks, jar, op, key, nextCall, execCount, quiet, raced, replaced>>

NextRender ==
  \E t \in Tasks :
    \/ CallGet(t)
    \/ LockForGet(t)
    \/ GetCollectedData(t)
    \/ CallPretty(t)
    \/ LockForPretty(t)
    \/ PrettySerialize(t)
    \/ PrettyTruncate(t)
    \/ CallClear(t)
    \/ LockForClear(t)
    \/ ClearCollector(t)
    \/ Return(t)

(* The views applied to stores filled with strings of every kind. *)
SpecRender == InitRender /\ [][NextRender]_vars


(* ------------- the pipeline on a runtime with Workers threads ---------- *)

InitLive == Start(LiveTasks, Empty)

(* Three tasks on one key; the Mutex's queue and the worker threads decide  *)
(* who runs.  The transport's timing and the jar are left aside.            *)
NextLive ==
  \E t \in LiveTasks :
    \/ \E v \in Sends : CallTrackedSend(t, "a", v)
    \/ LockJarForRequest(t)
    \/ GetRequestCookies(t)
    \/ Park(t)
    \/ LockForInsert(t)
    \/ InsertEntry(t)
    \/ ExecOkSend(t, 0, <<>>)
    \/ ExecOkText(t, 0, <<>>)
    \/ \E m \in ErrMsgs : ExecFails(t, m)
    \/ ExecTimeout(t)
    \/ LockForError(t)
    \/ RecordError(t)
    \/ \E b \in Bodies : BodyOk(t, 0, b)
    \/ BodyTimeout(t)
    \/ LockForResponse(t)
    \/ RecordResponse(t)
    \/ RecordNothing(t)
    \/ LockJarForDump(t)
    \/ DumpCookies(t)
    \/ CallClear(t)
    \/ LockForClear(t)
    \/ ClearCollector(t)
    \/ Return(t)

(* Every step that stays possible is taken in the end. *)
SpecLive == InitLive /\ [][NextLive]_vars /\ WF_vars(NextLive)

(* ============================== claims ================================= *)

HasResponse(e) == e.response_data # None
HasError(e)    == e.error # None
Returned(t)    == pc[t] = "done" /\ op[t] \in Sends
(* The requests (call numbers) of the entries of a map. *)
Requests(m) == {m[k].request_data.request : k \in DOMAIN m}

(* C1, as stated: in every reachable state no entry of the capture store   *)
(* has both response_data and error set, also when two calls use the same  *)
(* correlation key.                                                        *)
C1_NeverResponseAndError ==
  \A k \in DOMAIN collector : ~(HasResponse(collector[k]) /\ HasError(collector[k]))

(* C1, amended: an entry has both response_data and error set only if a    *)
(* call on the same key was still between its insert and its return when   *)
(* the entry was inserted.                                                 *)
C1_BothOnlyAfterKeyRace ==
  \A k \in DOMAIN collector :
    (HasResponse(collector[k]) /\ HasError(collector[k])) => raced[k]

(* C1 witness: both sends of the run are over, one recorded a response and *)
(* the other an error, under keys no calls raced on.                       *)
C1_Witness ==
  /\ nextCall = 3
  /\ \A t \in Tasks : pc[t] = "idle"
  /\ \E k1, k2 \in DOMAIN collector :
       /\ ~raced[k1] /\ ~raced[k2]
       /\ HasResponse(collector[k1]) /\ ~HasError(collector[k1])
       /\ HasError(collector[k2]) /\ ~HasResponse(collector[k2])

(* C2: a tracked send that returned an error after its insert, with its    *)
(* key used by no other call and no clear or drain meanwhile, leaves its   *)
(* entry with a non-empty error and no response_data, whatever the cause.  *)
C2_FailedSendRecordsError ==
  \A t \in Tasks :
    (Returned(t) /\ execCount[t] >= 1 /\ result[t] # "Ok" /\ quiet[t]) =>
      /\ key[t] \in DOMAIN collector
      /\ HasError(collector[key[t]])
      /\ collector[key[t]].error # Some("")
      /\ ~HasResponse(collector[key[t]])

(* C3: a tracked send that returned Ok, with its key used by no other call *)
(* and no clear or drain during the call, has an entry with response_data  *)
(* present and error absent.                                               *)
C3_OkSendHasResponse ==
  \A t \in Tasks :
    (Returned(t) /\ result[t] = "Ok" /\ quiet[t]) =>
      /\ key[t] \in DOMAIN collector
      /\ HasResponse(collector[key[t]])
      /\ ~HasError(collector[key[t]])

C3_Witness ==
  \E t \in Tasks, v \in Sends :
    /\ pc[t] = "done" /\ op[t] = v /\ result[t] = "Ok" /\ quiet[t]
    /\ \E u \in Tasks \ {t} : pc[u] = "done" /\ op[u] \in Sends \ {v}
                              /\ result[u] = "Ok" /\ quiet[u]

(* C4: when execute fails, the call touches the store only to set the      *)
(* error of its key's entry, if that entry still exists: it writes no      *)
(* response_data, removes no entry, and returns an error.                  *)
C4_Step(t) ==
  /\ (pc[t] \in {"exec", "err_wait"} /\ pc'[t] \in {"err_wait", "err_cs"}
        /\ pc'[t] # pc[t]) => collector' = collector
  /\ (pc[t] = "err_cs" /\ pc'[t] # "err_cs") =>
       /\ pc'[t] = "done" /\ result'[t] = "RequestFailed"
       /\ DOMAIN collector' = DOMAIN collector
       /\ \A k \in DOMAIN collector :
            collector'[k] = IF k = key[t]
                              THEN [collector[k] EXCEPT !.error = Some(errmsg[t])]
                              ELSE collector[k]
       /\ errmsg[t] # ""

C4_ExecuteFailureRecorded == [][\A t \in Tasks : C4_Step(t)]_vars

C4_Witness ==
  \E t \in Tasks :
    /\ Returned(t) /\ result[t] = "RequestFailed" /\ quiet[t]
    /\ key[t] \in DOMAIN collector
    /\ collector[key[t]].error = Some("connection error")
    /\ ~HasResponse(collector[key[t]])

(* C5: a tracked_send_text that times out on execute or on the body read   *)
(* returns an error and none of its steps after the insert changes the     *)
(* store: no response_data, no error, no jar dump, no other entry.         *)
C5_Step(t) ==
  (/\ op[t] = "text"
   /\ pc[t] \in {"exec", "body"}
   /\ pc'[t] \in {"body", "done"} /\ pc'[t] # pc[t]
   /\ (pc'[t] = "done" => result'[t] = "Timeout"))
  => collector' = collector

C5_TimeoutLeavesStore == [][\A t \in Tasks : C5_Step(t)]_vars

C5_Witness ==
  \E t \in Tasks :
    /\ pc[t] = "done" /\ op[t] = "text" /\ result[t] = "Timeout" /\ quiet[t]
    /\ key[t] \in DOMAIN collector
    /\ ~HasResponse(collector[key[t]]) /\ ~HasError(collector[key[t]])
    /\ collector[key[t]].cookies = None
    /\ \E k \in DOMAIN collector \ {key[t]} : HasResponse(collector[k])

(* C6: a tracked send invokes the transport's execute at most once, and    *)
(* exactly once as soon as it is past request building, the cookie lookup  *)
(* and the insert; a call that returns on any path after that has executed *)
(* once, a call whose build failed not at all.                             *)
C6_ExecuteOnce ==
  \A t \in Tasks :
    /\ execCount[t] <= 1
    /\ (op[t] \in Sends /\ pc[t] \in PostInsert) => execCount[t] = 1
    /\ (Returned(t) /\ result[t] \in {"Ok", "RequestFailed", "Timeout",
                                      "ReadBodyFailed", "SerializationError"})
          => execCount[t] = 1
    /\ (Returned(t) /\ result[t] = "BuildError") => execCount[t] = 0

C6_Witness ==
  \E t, u \in Tasks :
    /\ Returned(t) /\ result[t] = "RequestFailed" /\ execCount[t] = 1
    /\ Returned(u) /\ result[u] = "Timeout" /\ execCount[u] = 1

(* C7: no task holds the store lock or the jar lock while it is suspended  *)
(* on execute or on a body read (or waits for the store lock); each lock   *)
(* is held only in the synchronous section it guards.                      *)
C7_NoLockAcrossAwait ==
  \A t \in Tasks :
    /\ pc[t] \in {"exec", "body", "ins_wait", "err_wait", "rec_wait",
                  "take_wait", "clear_wait", "idle", "done"}
         => collLock # t /\ jarLock # t
    /\ collLock = t => pc[t] \in {"ins_cs", "err_cs", "rec_cs", "dump_wait",
                                  "dump_cs", "take_cs", "take_clear", "clear_cs"}
    /\ jarLock = t => pc[t] \in {"jar_cs", "dump_cs"}

C7_Witness ==
  \E t, u \in Tasks :
    /\ pc[t] = "body"
    /\ collLock = u /\ jarLock = u /\ pc[u] = "dump_cs"

(* C8: take_collected_data is atomic: at its clear the store holds exactly *)
(* the entries of the batch it returns (none is lost) and is empty after   *)
(* it; the returned batch does not change, and no entry of a returned      *)
(* batch is in the store (an insert after the drain is in the store only). *)
C8_Step(t) ==
  /\ (pc[t] = "take_clear" /\ pc'[t] # "take_clear") =>
       /\ ret[t] = collector
       /\ collector' = Empty
       /\ ret'[t] = ret[t]
       /\ pc'[t] = "done"
  /\ (pc'[t] = "done" /\ op'[t] = "take") =>
       /\ Requests(ret'[t]) \cap Requests(collector') = {}
       /\ (pc[t] = "done" => ret'[t] = ret[t])

C8_DrainAtomic == [][\A t \in Tasks : C8_Step(t)]_vars

C8_Witness ==
  \E t \in Tasks :
    /\ pc[t] = "done" /\ op[t] = "take"
    /\ Requests(ret[t]) = {1}
    /\ Requests(collector) = {2}

(* C9: when the entry of a call's key is gone at the call's record step    *)
(* (response or error), the step changes nothing in the store, creates no  *)
(* entry, and the call returns its normal result.                          *)
C9_Step(t) ==
  (pc[t] \in {"rec_cs", "err_cs"} /\ pc'[t] # pc[t] /\ key[t] \notin DOMAIN collector) =>
    /\ collector' = collector
    /\ pc'[t] = "done"
    /\ result'[t] = IF pc[t] = "rec_cs" THEN "Ok" ELSE "RequestFailed"

C9_RecordAfterRemovalIsNoOp == [][\A t \in Tasks : C9_Step(t)]_vars

(* C9 witness: the only call so far returned Ok, a drain took its entry    *)
(* before the response was recorded, and the store has no entry for it.    *)
C9_Witness ==
  \E t, u \in Tasks :
    /\ nextCall = 2
    /\ Returned(t) /\ result[t] = "Ok"
    /\ pc[u] = "done" /\ op[u] = "take"
    /\ key[t] \in DOMAIN ret[u] /\ ~HasResponse(ret[u][key[t]])
    /\ key[t] \notin DOMAIN collector

(* C10: in both variants the stamped duration_ms (and response_time) is    *)
(* the time from the timer's start to the return of execute: it includes   *)
(* no body-read time.                                                      *)
C10_DurationIsExecuteOnly ==
  \A t \in Tasks :
    pc[t] \in {"rec_wait", "rec_cs", "dump_wait", "dump_cs"} =>
      duration_ms[t] = execDur[t]

(* C11: in tracked_send_text the status, the headers with every Set-Cookie *)
(* value in received order and the final URL are copied from the response  *)
(* before the body read begins: from the moment the call waits for the     *)
(* body until it returns, its copies equal what the response carried, and  *)
(* no step taken after the body was consumed changes them.                 *)
AfterExecOk == {"body", "rec_wait", "rec_cs", "dump_wait", "dump_cs"}

C11_Step(t) ==
  (op'[t] = "text" /\ pc'[t] \in AfterExecOk) =>
    /\ resp'[t].status = response'[t].status
    /\ resp'[t].set_cookies = response'[t].set_cookies
    /\ resp'[t].final_url = response'[t].url
    /\ (pc'[t] = "body" => response'[t].body_reads = 0)
    /\ (response[t].body_reads > 0 =>
          /\ resp'[t].status = resp[t].status
          /\ resp'[t].set_cookies = resp[t].set_cookies
          /\ resp'[t].final_url = resp[t].final_url)
    /\ (pc[t] = "rec_cs" /\ pc'[t] = "dump_wait") =>
          /\ collector'[key[t]].response_data[1].status = response[t].status
          /\ collector'[key[t]].response_data[1].set_cookies = response[t].set_cookies

C11_HeadersBeforeBody == [][\A t \in Tasks : C11_Step(t)]_vars

(* C11 witness: a tracked_send_text has consumed the body and recorded a   *)
(* response whose two Set-Cookie values stand in the order received.       *)
C11_Witness ==
  \E t \in Tasks :
    /\ op[t] = "text" /\ pc[t] = "dump_wait"
    /\ response[t].body_reads = 1
    /\ response[t].set_cookies = <<"a=1", "b=2">>
    /\ collector[key[t]].response_data = Some(ResponseData(t))
    /\ collector[key[t]].response_data[1].set_cookies = <<"a=1", "b=2">>

(* C12: tracked_send never reads the body: it stores an empty body in the  *)
(* response snapshot and returns the response with its body stream unread. *)
(* tracked_send_text reads the body exactly once, and the body text it     *)
(* stores in the entry is the body text it returns.                        *)
C12_Step(t) ==
  /\ op'[t] = "send" => response'[t].body_reads = 0
  /\ (op[t] \in Sends /\ pc[t] = "rec_cs" /\ pc'[t] = "dump_wait") =>
       /\ collector'[key[t]].response_data # None
       /\ collector'[key[t]].response_data[1].body =
            (IF op[t] = "send" THEN "" ELSE resp[t].body)
  /\ (op[t] \in Sends /\ pc[t] \in {"rec_cs", "dump_cs"} /\ pc'[t] = "done"
        /\ result'[t] = "Ok") =>
       IF op[t] = "send"
         THEN /\ ret'[t] = [response |-> response[t]]
              /\ ret'[t].response.body_reads = 0
              /\ pc[t] = "dump_cs" => collector'[key[t]].response_data[1].body = ""
         ELSE /\ response[t].body_reads = 1
              /\ ret'[t].body = resp[t].body
              /\ ret'[t].body \in Bodies
              /\ pc[t] = "dump_cs" =>
                   collector'[key[t]].response_data[1].body = ret'[t].body

C12_BodyPolicy == [][\A t \in Tasks : C12_Step(t)]_vars

(* C12 witness: a tracked_send and a tracked_send_text have both returned  *)
(* Ok under different keys: the first entry has an empty body and the      *)
(* returned response is unread, the second has the body text returned.     *)
C12_Witness ==
  \E t, u \in Tasks :
    /\ pc[t] = "done" /\ op[t] = "send" /\ result[t] = "Ok"
    /\ pc[u] = "done" /\ op[u] = "text" /\ result[u] = "Ok"
    /\ key[t] # key[u]
    /\ key[t] \in DOMAIN collector /\ key[u] \in DOMAIN collector
    /\ collector[key[t]].response_data # None
    /\ collector[key[t]].response_data[1].body = ""
    /\ ret[t].response.body_reads = 0
    /\ collector[key[u]].response_data # None
    /\ collector[key[u]].response_data[1].body = "ok"
    /\ ret[u].body = "ok"

(* C13: the response snapshot and the jar dump are attached together in    *)
(* one critical section of the store lock: whenever the store lock is free *)
(* (whatever any reader can see), an entry that has response_data set also *)
(* has its jar dump (cookies) set.                                         *)
C13_ResponseHasDump ==
  collLock = 0 =>
    \A k \in DOMAIN collector :
      HasResponse(collector[k]) => collector[k].cookies # None

(* C14: the insert of a tracked send creates or replaces the entry of its  *)
(* key with response_data, error and the jar dump all unset, also when an  *)
(* older entry under that key had a response or an error; from the insert  *)
(* until the call's own record step, with no other call on the key and no  *)
(* clear or drain, the entry holds the call's request snapshot only.       *)
BeforeRecord == {"exec", "body", "err_wait", "err_cs", "rec_wait", "rec_cs"}

C14_Step(t) ==
  /\ (pc[t] = "ins_cs" /\ pc'[t] = "exec") =>
       /\ DOMAIN collector' = DOMAIN collector \cup {key[t]}
       /\ collector'[key[t]] = FreshEntry(t)
       /\ \A k \in DOMAIN collector \ {key[t]} : collector'[k] = collector[k]
  /\ (op'[t] \in Sends /\ pc'[t] \in BeforeRecord /\ quiet'[t]) =>
       /\ key'[t] \in DOMAIN collector'
       /\ collector'[key'[t]].request_data =
            [request |-> call'[t], cookies |-> cookies_sent'[t]]
       /\ collector'[key'[t]].response_data = None
       /\ collector'[key'[t]].error = None
       /\ collector'[key'[t]].cookies = None

C14_InsertResetsEntry == [][\A t \in Tasks : C14_Step(t)]_vars

(* C14 witness: the second call's insert replaced an entry that had a      *)
(* response or an error; the call now waits for execute.                   *)
C14_Witness ==
  \E t \in Tasks :
    /\ op[t] \in Sends /\ pc[t] = "exec" /\ quiet[t] /\ call[t] = 2
    /\ replaced[key[t]]
    /\ collector[key[t]] = FreshEntry(t)

(* C15: when tracked sends with the same key run concurrently the last     *)
(* write wins, in every interleaving: an insert puts its own request       *)
(* snapshot in place of whatever entry was there, a record step puts its   *)
(* own response (or error) in place of whatever response (or error) was    *)
(* there, and nothing but an insert or a record step on the key changes    *)
(* these fields, so after both calls the entry holds the request of the    *)
(* later insert and the response (or error) of the later record step.      *)
C15_Writes(t) ==
  /\ (pc[t] = "ins_cs" /\ pc'[t] = "exec") =>
       collector'[key[t]].request_data =
         [request |-> call[t], cookies |-> cookies_sent[t]]
  /\ (pc[t] = "rec_cs" /\ pc'[t] = "dump_wait") =>
       /\ collector'[key[t]].response_data = Some(ResponseData(t))
       /\ collector'[key[t]].request_data = collector[key[t]].request_data
  /\ (pc[t] = "err_cs" /\ pc'[t] = "done" /\ key[t] \in DOMAIN collector) =>
       /\ collector'[key[t]].error = Some(errmsg[t])
       /\ collector'[key[t]].request_data = collector[key[t]].request_data

C15_Frame(k) ==
  LET Moves(t, from) == key[t] = k /\ pc[t] \in from /\ pc'[t] # pc[t] IN
  /\ collector'[k].request_data # collector[k].request_data =>
       \E t \in Tasks : Moves(t, {"ins_cs"})
  /\ collector'[k].response_data # collector[k].response_data =>
       \E t \in Tasks : Moves(t, {"ins_cs", "rec_cs"})
  /\ collector'[k].error # collector[k].error =>
       \E t \in Tasks : Moves(t, {"ins_cs", "err_cs"})

C15_LastWriteWins ==
  [][/\ \A t \in Tasks : C15_Writes(t)
     /\ \A k \in DOMAIN collector \cap DOMAIN collector' : C15_Frame(k)]_vars

(* C15 witness: a tracked_send and a tracked_send_text raced on one key    *)
(* and both returned Ok; the entry has the empty body of the tracked_send, *)
(* whose record step came last and replaced the text call's response.      *)
C15_Witness ==
  \E t, u \in Tasks :
    /\ pc[t] = "done" /\ op[t] = "send" /\ result[t] = "Ok"
    /\ pc[u] = "done" /\ op[u] = "text" /\ result[u] = "Ok"
    /\ key[t] = key[u] /\ raced[key[t]]
    /\ key[t] \in DOMAIN collector
    /\ collector[key[t]].request_data.request = 2
    /\ collector[key[t]].response_data # None
    /\ collector[key[t]].response_data[1].body = ""
    /\ ret[u].body = "ok"

(* C16: get_pretty_truncated_data and get_collected_data leave the store   *)
(* unchanged: no step of either changes any entry, a snapshot taken after  *)
(* any number of render calls has the untruncated values of the store,     *)
(* and two render calls on the same store state return the same output.    *)
Views == {"get", "pretty"}

C16_Step(t) ==
  /\ ((op[t] \in Views \/ op'[t] \in Views) /\ pc'[t] # pc[t]) =>
       collector' = collector
  /\ (pc[t] = "get_cs" /\ pc'[t] = "done") => ret'[t] = ToJson(collector')

C16_SameOutput ==
  \A t, u \in Tasks :
    (/\ pc[t] = "done" /\ op[t] = "pretty" /\ result[t] = "Ok"
     /\ pc[u] = "done" /\ op[u] = "pretty" /\ result[u] = "Ok"
     /\ collector # Empty)
    => ret[t] = ret[u]

C16_ViewsLeaveStore ==
  [][(\A t \in Tasks : C16_Step(t)) /\ C16_SameOutput']_vars

(* C16 witness: a render call returned a truncated view, and the snapshot  *)
(* another task took of the store has the untruncated values.              *)
C16_Witness ==
  \E t, u \in Tasks :
    /\ pc[t] = "done" /\ op[t] = "pretty" /\ result[t] = "Ok"
    /\ pc[u] = "done" /\ op[u] = "get"
    /\ collector # Empty
    /\ ret[u] = ToJson(collector)
    /\ ret[t] # ret[u]

(* C17: the redacted view changes only three kinds of string: the header   *)
(* values of the request and the response snapshots (cut at 50), the       *)
(* entry's jar-dump string (cut at 500, not at 50) and each Set-Cookie     *)
(* string (cut at 50); every other field, among them the error message,    *)
(* the body, the endpoint and the values of the sent-cookies mapping, is   *)
(* passed unchanged, for every correlation key and every header, cookie    *)
(* and field name.                                                         *)
C17_CutHeaders(o) ==
  Obj([o.val EXCEPT !["headers"] = Obj(CutStrings(@.val, HeaderMax))])

C17_Entry(e) ==
  Obj([n \in DOMAIN e.val |->
        CASE n = "request_data" -> C17_CutHeaders(e.val[n])
          [] n = "response_data" ->
               IF e.val[n].kind = "null" THEN Null
               ELSE Obj([C17_CutHeaders(e.val[n]).val EXCEPT
                           !["set_cookies"] = Arr(CutStrings(@.val, SetCookieMax))])
          [] n = "cookies" ->
               IF e.val[n].kind = "string"
                 THEN Str(truncate(e.val[n].val, CookiesMax))
                 ELSE e.val[n]
          [] OTHER -> e.val[n]])

C17_Redacted(data) == Obj([k \in DOMAIN data.val |-> C17_Entry(data.val[k])])

C17_Step(t) ==
  (pc[t] = "pretty_fmt" /\ pc'[t] = "done" /\ result'[t] = "Ok") =>
    ret'[t] = C17_Redacted(ret[t])

C17_OnlyTargetedStrings == [][\A t \in Tasks : C17_Step(t)]_vars

(* C18: for every string s and max in {50, 500}, truncate returns s        *)
(* unchanged when its length is at most max, and otherwise the first       *)
(* max - 3 characters followed by the three-character marker, max          *)
(* characters in all; truncating a truncated value changes nothing.  The   *)
(* strings are those of the store the views are applied to.                *)
C18_Range(f) == {f[n] : n \in DOMAIN f}

C18_Inputs ==
  UNION { LET e == collector[k]
              q == e.request_data
          IN  {q.method, q.endpoint, q.request_time}
                \cup C18_Range(q.headers) \cup C18_Range(q.cookies)
                \cup C18_Range(q.body) \cup C18_Range(e.error) \cup C18_Range(e.cookies)
                \cup UNION { {r.body, r.response_time} \cup C18_Range(r.headers)
                               \cup C18_Range(r.set_cookies) :
                             r \in C18_Range(e.response_data) }
        : k \in DOMAIN collector }

C18_TruncateByLength ==
  \A s \in C18_Inputs, max \in {HeaderMax, CookiesMax} :
    LET r == truncate(s, max)
    IN  /\ Len(s) <= max => r = s
        /\ Len(s) > max => r = SubSeq(s, 1, max - 3) \o Marker /\ Len(r) = max
        /\ truncate(r, max) = r

(* C20: no task waits forever for the store lock or the jar lock, on the   *)
(* block_on path of tracked_send_text either: whenever a task waits for a  *)
(* lock, some step of some task is possible (so that, every possible step  *)
(* being taken in the end, the lock is released and the task gets it).     *)
C20_NoTaskStuck ==
  (\E t \in Spawned : pc[t] \in LockWaits \cup {"jar_wait", "dump_wait"})
    => ENABLED NextLive

=============================================================================
